---- MODULE Spec2Model ----
(***************************************************************************)
(* Two Cloudflare Workers over one key-value namespace each:               *)
(*   - TempShare (src/src/index.js): anonymous upload / view of pastes,    *)
(*     with a fixed-window rate limiter kept in the same namespace;        *)
(*   - Secure Content (src/unnamed/part_000): admin-curated records keyed  *)
(*     by the SHA-256 digest of an access password.                        *)
(* A handler is a sequence of steps, one per awaited store call: the step  *)
(* performs the call and runs the handler up to its next await.            *)
(***************************************************************************)
EXTENDS Integers, Sequences, FiniteSets, TLC

(***************************************************************************)
(* Strings.  A string is its run-length encoding: a sequence of runs       *)
(* [c |-> code unit, n |-> repetitions >= 1] in which adjacent runs have   *)
(* different code units, so that equal strings are equal values and a      *)
(* string of 10240 characters is one run.                                  *)
(***************************************************************************)
Rep(c, n) == IF n = 0 THEN <<>> ELSE <<[c |-> c, n |-> n]>>

Cat(s, t) ==
    IF s = <<>> THEN t
    ELSE IF t = <<>> THEN s
    ELSE IF s[Len(s)].c = t[1].c
         THEN SubSeq(s, 1, Len(s) - 1)
              \o <<[c |-> t[1].c, n |-> s[Len(s)].n + t[1].n]>>
              \o Tail(t)
         ELSE s \o t

RECURSIVE FromCodes(_)
FromCodes(codes) ==
    IF codes = <<>> THEN <<>>
    ELSE Cat(Rep(Head(codes), 1), FromCodes(Tail(codes)))

RECURSIVE StrLen(_)
\* String.prototype.length: the number of UTF-16 code units.
StrLen(s) == IF s = <<>> THEN 0 ELSE Head(s).n + StrLen(Tail(s))

\* Bytes of one code unit in UTF-8 (code units of the basic plane, no surrogates).
Utf8Len(c) == IF c < 128 THEN 1 ELSE IF c < 2048 THEN 2 ELSE 3

RECURSIVE ByteLen(_)
\* Size of the string on the wire (the request body is UTF-8 JSON).
ByteLen(s) == IF s = <<>> THEN 0 ELSE Head(s).n * Utf8Len(Head(s).c) + ByteLen(Tail(s))

CodeUnits(s) == {s[i].c : i \in 1..Len(s)}

(***************************************************************************)
(* JSON values as the handlers see them after request.json().              *)
(***************************************************************************)
JStr(s)   == [t |-> "str", v |-> s]
JNum(n)   == [t |-> "num", v |-> <<n>>]
JUndef    == [t |-> "undef", v |-> <<>>]
JNull     == [t |-> "null", v |-> <<>>]
JArr(a)   == [t |-> "arr", v |-> a]
\* A string in a date format that new Date() parses to the instant ms.
JDate(ms) == [t |-> "date", v |-> <<ms>>]

\* JavaScript truthiness of a value (!x is its negation).
Truthy(j) ==
    CASE j.t = "str" -> j.v # <<>>
      [] j.t = "num" -> j.v[1] # 0
      [] j.t = "arr" -> TRUE
      [] j.t = "date" -> TRUE
      [] OTHER -> FALSE

\* An absent optional value is <<>>, a present one <<v>>.
None == <<>>
Some(v) == <<v>>

(***************************************************************************)
(* Program constants of TempShare.                                         *)
(***************************************************************************)
RATE_LIMIT_KEY_PREFIX == FromCodes(<<114, 97, 116, 101, 108, 105, 109, 105, 116, 58>>)
RATE_LIMIT_MAX_REQUESTS == 10
RATE_LIMIT_WINDOW == 60
MAX_CONTENT_LENGTH == 10 * 1024
validExpiryHours == {1, 6, 24, 168}
DefaultExpiryHours == 24
PasswordLength == 16
MsPerSecond == 1000
MsPerHour == 60 * 60 * 1000
MsPerDay == 24 * MsPerHour

(***************************************************************************)
(* Utilities of src/src/index.js.                                          *)
(***************************************************************************)
validateString(input, minLength, maxLength) ==
    /\ input.t = "str"
    /\ ~(StrLen(input.v) < minLength \/ StrLen(input.v) > maxLength)

\* /^[A-Za-z0-9]+$/
IsAlnum(c) == c \in (65..90) \cup (97..122) \cup (48..57)

\* Mutant: the length is only bounded above.
validatePasswordAtMost(password) ==
    /\ validateString(password, 0, PasswordLength)
    /\ password.v # <<>>
    /\ \A c \in CodeUnits(password.v) : IsAlnum(c)

validatePassword(password) ==
    /\ validateString(password, PasswordLength, PasswordLength)
    /\ password.v # <<>>
    /\ \A c \in CodeUnits(password.v) : IsAlnum(c)

\* The header is absent (None) or a string, held as its ';'-separated parts;
\* contentType.includes('application/json').
validateContentType(contentType) ==
    /\ contentType # None
    /\ \E i \in 1..Len(contentType[1]) : contentType[1][i] = "application/json"

\* Mutant: DEL is not in the character class.
IsStrippedNoDel(c) == c \in (0..8) \cup {11, 12} \cup (14..31)

\* /[\x00-\x08\x0B\x0C\x0E-\x1F\x7F]/
IsStripped(c) == c \in (0..8) \cup {11, 12} \cup (14..31) \cup {127}

RECURSIVE StripRuns(_)
StripRuns(s) ==
    IF s = <<>> THEN <<>>
    ELSE IF IsStripped(Head(s).c) THEN StripRuns(Tail(s))
    ELSE Cat(<<Head(s)>>, StripRuns(Tail(s)))

sanitizeContent(content) == StripRuns(content)

\* chars[v % chars.length] over 'A'..'Z' 'a'..'z' '0'..'9'
AlphabetChar(i) ==
    IF i < 26 THEN 65 + i
    ELSE IF i < 52 THEN 97 + (i - 26)
    ELSE 48 + (i - 52)

RECURSIVE MapAlphabet(_)
MapAlphabet(array) ==
    IF array = <<>> THEN <<>>
    ELSE Cat(Rep(AlphabetChar(Head(array).c % 62), Head(array).n),
             MapAlphabet(Tail(array)))

\* Mutant: the loop stops one character early.
generatePasswordShort(array) ==
    MapAlphabet(IF array = <<>> THEN <<>>
                ELSE IF array[1].n = 1 THEN Tail(array)
                ELSE [array EXCEPT ![1].n = @ - 1])

\* array: the Uint32Array filled by crypto.getRandomValues, run-length encoded.
generatePassword(array) == MapAlphabet(array)

\* Date.prototype.toISOString and its parse by new Date(string): the calendar
\* day and the millisecond within it.
toISOString(ms) == [day |-> ms \div MsPerDay, msOfDay |-> ms % MsPerDay]
DateParse(iso) == iso.day * MsPerDay + iso.msOfDay

\* JSON.stringify of a record the Worker stores, and JSON.parse of that text.
JSON_stringify(obj) == [json |-> obj]
JSON_parse(text) == text.json

getClientIp(header) == IF header # None THEN header[1] ELSE FromCodes(<<117, 110, 107, 110, 111, 119, 110>>)

(***************************************************************************)
(* Bounds of the model.                                                    *)
(***************************************************************************)
\* Requests handled concurrently by the runtime (request slots).
MaxConc == 2
\* Requests that reach the rate limiter in one run of Spec and of SpecSeq.
MaxReqs == 4
MaxSeqReqs == 3
\* In SpecRL, the requests counted since a client's counter was found absent
\* (the count stays at this value once reached).
MaxIdx == 12
\* Store calls that throw in one run.
MaxFaults == 1
\* Code units of a string handed to a utility function on its own.
MaxStr == 3
\* Milliseconds explored after each instant of interest.
MaxFine == 1

(***************************************************************************)
(* Inputs.                                                                 *)
(***************************************************************************)
\* Instants the clock can show: the origin and the end of the shortest expiry,
\* or the origin and the end of a rate-limit window, each followed by single
\* milliseconds.
ExpiryInstants == {0} \cup {1 * MsPerHour + f : f \in 0..MaxFine}
WindowInstants ==
    {f : f \in 0..MaxFine} \cup {RATE_LIMIT_WINDOW * MsPerSecond + f : f \in 0..(MaxFine + 1)}

\* Values crypto.getRandomValues can leave in the Uint32Array.
RandomArrays == {Rep(0, 16), Rep(62, 16), Rep(27, 8) \o Rep(61, 8)}
Passwords == {generatePassword(a) : a \in RandomArrays}
\* A well-formed password that no upload of this model returns.
NeverIssued == Rep(90, 16)

ViewPasswords ==
    {JStr(p) : p \in Passwords \cup {NeverIssued}}
        \cup {JStr(Rep(65, 15)), JStr(Rep(65, 17)), JStr(Rep(65, 15) \o Rep(45, 1)),
              JStr(<<>>), JNum(12345), JUndef}

Contents ==
    {JStr(FromCodes(<<72, 105>>)),
     JStr(FromCodes(<<72, 0, 105, 10, 9, 127>>)),
     JStr(Rep(0, 1)),
     JStr(Rep(97, MAX_CONTENT_LENGTH)),
     JStr(Rep(97, MAX_CONTENT_LENGTH + 1)),
     JStr(Rep(233, MAX_CONTENT_LENGTH \div 2) \o Rep(97, 1)),
     JStr(<<>>), JNum(7), JUndef}

ExpiryInputs == {JUndef, JNum(1), JNum(6), JNum(24), JNum(168), JNum(2), JNum(0),
                 JStr(FromCodes(<<49>>))}

ContentTypes ==
    {None, Some(<<"application/json">>), Some(<<"application/json", "charset=utf-8">>),
     Some(<<"text/plain">>)}

IpHeaders == {None, Some(FromCodes(<<49, 48, 46, 48, 46, 48, 46, 49>>))}

\* request.json(): it throws, or yields null, or yields an object.
UploadBodies ==
    {[parse |-> "malformed", content |-> JUndef, expiryHours |-> JUndef],
     [parse |-> "null", content |-> JUndef, expiryHours |-> JUndef]}
        \cup {[parse |-> "object", content |-> c, expiryHours |-> JNum(1)] :
                  c \in Contents}
        \cup {[parse |-> "object", content |-> JStr(FromCodes(<<72, 105>>)),
                expiryHours |-> e] : e \in ExpiryInputs}

ViewBodies ==
    {[parse |-> "malformed", password |-> JUndef],
     [parse |-> "null", password |-> JUndef]}
        \cup {[parse |-> "object", password |-> p] : p \in ViewPasswords}

\* Strings of up to MaxStr code units over control characters of each stripped
\* range, the kept ones around them, and printable characters.
SmallAlphabet == {0, 8, 9, 10, 11, 12, 13, 14, 31, 32, 65, 127, 128}

RECURSIVE CodeSeqs(_)
CodeSeqs(n) ==
    IF n = 0 THEN {<<>>}
    ELSE CodeSeqs(n - 1) \cup {Append(q, c) : q \in CodeSeqs(n - 1), c \in SmallAlphabet}

SmallStrings == {FromCodes(q) : q \in CodeSeqs(MaxStr)}

\* No utility function is being applied on its own.
NoCall == [fn |-> "none", input |-> <<>>, n |-> 0, results |-> <<>>]

RLKey(ip) == Cat(RATE_LIMIT_KEY_PREFIX, ip)
Ips == {getClientIp(h) : h \in IpHeaders}
\* The keys of the store: every string a view may name, and the counters.
PasteKeys == {p.v : p \in {q \in ViewPasswords : q.t = "str"}}
Keys == PasteKeys \cup {RLKey(ip) : ip \in Ips}

(***************************************************************************)
(* State.                                                                  *)
(***************************************************************************)
VARIABLES
    now,      \* Date.now(), in milliseconds
    kv,       \* env.CONTENT_KV of TempShare: key -> None or Some([val, exp])
    reqs,     \* the requests in flight, one per slot
    out,      \* the request answered by the last step, with its response (else Idle)
    nreq,     \* requests that have entered checkRateLimit
    faults,   \* store calls that have thrown
    ledger,   \* history: per password, what its latest upload submitted, the views
              \* answered since, and whether a view has deleted the record since
    rlh,      \* history: per client, the limiter's decisions
    env,      \* Secure Content: the Worker's environment (ADMIN_PASSWORD)
    akv,      \* Secure Content: env.CONTENT_KV, digest -> None or Some(text)
    aout,     \* Secure Content: the request answered by the last step
    aledger,  \* Secure Content history: per digest, the body of the latest
              \* successful add since the last successful delete of the digest
    call      \* a utility function applied on its own: its input and results

vars == <<now, kv, reqs, out, nreq, faults, ledger, rlh, env, akv, aout, aledger, call>>

\* The state of the other Worker.
tempShare == <<kv, reqs, out, nreq, ledger, rlh>>
secureContent == <<env, akv, aout, aledger>>

Slots == 1..MaxConc

\* The limiter's history of a client before its first request: the requests
\* counted since its counter was last found absent, when that was, whether its
\* last request was denied and, where the workload keeps them, the requests
\* allowed that arrived at each instant and whether a request has read the
\* counter between the read and the write of another request.
NoDecisions ==
    [idx |-> 0, start |-> 0, denied |-> FALSE, overlapped |-> FALSE,
     allowedAt |-> [t \in ExpiryInstants \cup WindowInstants |-> 0]]

NoResp ==
    [status |-> 0, message |-> "", password |-> None, content |-> None,
     createdAt |-> None, expiresAt |-> None, expiresIn |-> None, views |-> None]

\* A request: its inputs, the handler's position and locals, and what it did.
Idle ==
    [kind |-> "none", pc |-> "idle", ip |-> <<>>, body |-> None,
     rlNow |-> 0, rlSeen |-> None, rlVal |-> None, rlDone |-> FALSE, allowed |-> FALSE,
     rlIdx |-> 0, rlStart |-> 0, afterDeny |-> FALSE,
     key |-> <<>>, seen |-> None, data |-> None, hours |-> 0, at |-> 0,
     purgedBefore |-> FALSE,
     acc |-> {}, threw |-> {}, resp |-> NoResp]

Access(op, key) == [op |-> op, key |-> key]

(***************************************************************************)
(* The key-value store: get / put / delete with optional expirationTtl.    *)
(***************************************************************************)
\* get: null for a missing key and for one whose time-to-live has run out.
KVget(store, key, t) ==
    IF store[key] = None THEN None
    ELSE IF store[key][1].exp # None /\ t >= store[key][1].exp[1] THEN None
    ELSE Some(store[key][1].val)

\* Mutant: a put stores nothing.
KVputDropped(store, key, value, ttl, t) == store

\* put(key, value, {expirationTtl: ttl}); ttl = None without the option.
KVput(store, key, value, ttl, t) ==
    [store EXCEPT ![key] =
        Some([val |-> value,
              exp |-> IF ttl = None THEN None ELSE Some(t + ttl[1] * MsPerSecond)])]

KVdelete(store, key) == [store EXCEPT ![key] = None]

\* A store call may throw while the budget of faults lasts.
Outcomes(W) == IF faults < W.maxFaults THEN {"ok", "throws"} ELSE {"ok"}

(***************************************************************************)
(* Responses.                                                              *)
(***************************************************************************)
jsonResponse(status, message) == [NoResp EXCEPT !.status = status, !.message = message]

\* The handler returns: the slot is free again and `out` holds the request.
Respond(s, r, resp) ==
    /\ out' = [r EXCEPT !.pc = "done", !.resp = resp]
    /\ reqs' = [reqs EXCEPT ![s] = Idle]

(***************************************************************************)
(* checkRateLimit (src/src/index.js:46-88).                                *)
(***************************************************************************)
\* Mutant: the limit test is count > max.
checkRateLimitOffByOne(data, t) ==
    LET windowStart == t - (RATE_LIMIT_WINDOW * MsPerSecond) IN
    IF data = None
    THEN [allow |-> TRUE, put |-> Some([count |-> 1, windowStart |-> windowStart])]
    ELSE IF data[1].windowStart < windowStart
    THEN [allow |-> TRUE, put |-> Some([count |-> 1, windowStart |-> t])]
    ELSE IF data[1].count > RATE_LIMIT_MAX_REQUESTS
    THEN [allow |-> FALSE, put |-> None]
    ELSE [allow |-> TRUE,
          put |-> Some([count |-> data[1].count + 1,
                        windowStart |-> data[1].windowStart])]

\* The branch taken on the counter read at the time t the check began:
\* whether the request is allowed and the counter to write, if any.
checkRateLimit(data, t) ==
    LET windowStart == t - (RATE_LIMIT_WINDOW * MsPerSecond) IN
    IF data = None
    THEN [allow |-> TRUE, put |-> Some([count |-> 1, windowStart |-> windowStart])]
    ELSE IF data[1].windowStart < windowStart
    THEN [allow |-> TRUE, put |-> Some([count |-> 1, windowStart |-> t])]
    ELSE IF data[1].count >= RATE_LIMIT_MAX_REQUESTS
    THEN [allow |-> FALSE, put |-> None]
    ELSE [allow |-> TRUE,
          put |-> Some([count |-> data[1].count + 1,
                        windowStart |-> data[1].windowStart])]

\* Mutant: the limiter fails closed.
rateLimitOnErrorDeny == FALSE

\* What checkRateLimit returns from its catch block.
rateLimitOnError == TRUE

(***************************************************************************)
(* handleUpload and handleView between the rate-limit check and their      *)
(* first store call on a paste (src/src/index.js:192-236, 268-284).        *)
(***************************************************************************)
\* Mutant: any number sent is used.
expiryHoursAsSent(expiryHours) ==
    IF Truthy(expiryHours) /\ expiryHours.t = "num" THEN expiryHours.v[1]
    ELSE DefaultExpiryHours

\* expiryHours && validExpiryHours.includes(expiryHours) ? expiryHours : 24
expiryHoursOf(expiryHours) ==
    IF Truthy(expiryHours) /\ expiryHours.t = "num" /\ expiryHours.v[1] \in validExpiryHours
    THEN expiryHours.v[1]
    ELSE DefaultExpiryHours

\* The answer to an upload body that is refused, or None when it is accepted.
uploadRefusal(body) ==
    IF body.parse = "malformed" THEN Some(jsonResponse(400, "Invalid JSON"))
    ELSE IF body.parse = "null" THEN Some(jsonResponse(500, "Server error"))
    ELSE IF ~Truthy(body.content) \/ body.content.t # "str"
    THEN Some(jsonResponse(400, "Content is required"))
    ELSE IF StrLen(body.content.v) > MAX_CONTENT_LENGTH
    THEN Some(jsonResponse(400, "Content too large (max 10KB)"))
    ELSE None

\* The record handleUpload builds at time t with the random values `array`.
uploadRecord(body, array, t) ==
    [content |-> sanitizeContent(body.content.v),
     password |-> generatePassword(array),
     createdAt |-> toISOString(t),
     expiresAt |-> toISOString(t + expiryHoursOf(body.expiryHours) * MsPerHour),
     views |-> 0]

\* The answer to a view body that is refused, or None when it is accepted.
viewRefusal(body) ==
    IF body.parse = "malformed" THEN Some(jsonResponse(400, "Invalid JSON"))
    ELSE IF body.parse = "null" THEN Some(jsonResponse(500, "Server error"))
    ELSE IF ~Truthy(body.password) \/ ~validatePassword(body.password)
    THEN Some(jsonResponse(400, "Invalid password format"))
    ELSE None

\* Mutant: a miss is answered as Secure Content answers an unknown password.
viewMissUnauthorized == jsonResponse(401, "Invalid password")

\* Mutant: a miss is answered like an expired record.
viewMissGone == jsonResponse(410, "Content expired")

\* The answer when the store holds nothing under the password.
viewMiss == jsonResponse(404, "Invalid password or content expired")

\* Mutant: the record already counts as expired at the instant expiresAt.
isExpiredAtInstant(data, t) == DateParse(data.expiresAt) <= t

\* new Date(data.expiresAt) < new Date()
isExpired(data, t) == DateParse(data.expiresAt) < t

\* Mutant: the counter is not advanced.
bumpViewsNot(data) == data

\* Mutant: the view also empties the content.
bumpViewsAndClear(data) == [data EXCEPT !.views = data.views + 1, !.content = <<>>]

\* data.views = (data.views || 0) + 1
bumpViews(data) == [data EXCEPT !.views = data.views + 1]

\* checkRateLimit has returned: its locals are gone.
Returned(r) ==
    [r EXCEPT !.rlNow = 0, !.rlSeen = None, !.rlVal = None, !.rlIdx = 0, !.rlStart = 0,
              !.afterDeny = FALSE]

\* The handler continues after an allowed rate-limit check: it reads the body
\* and either answers or goes on to its store call.
AfterLimit(s, r, W) ==
    IF r.kind = "upload"
    THEN \E body \in W.uploadBodies, array \in W.arrays :
            LET rb == [r EXCEPT !.body = Some(body)] IN
            IF uploadRefusal(body) # None
            THEN Respond(s, rb, uploadRefusal(body)[1])
            ELSE /\ reqs' = [reqs EXCEPT ![s] =
                        [Returned(rb) EXCEPT !.pc = "up_put",
                                   !.key = generatePassword(array),
                                   !.data = Some(uploadRecord(body, array, now)),
                                   !.hours = expiryHoursOf(body.expiryHours),
                                   !.at = now]]
                 /\ out' = Idle
    ELSE \E body \in W.viewBodies :
            LET rb == [r EXCEPT !.body = Some(body)] IN
            IF viewRefusal(body) # None
            THEN Respond(s, rb, viewRefusal(body)[1])
            ELSE /\ reqs' = [reqs EXCEPT ![s] =
                        [Returned(rb) EXCEPT !.pc = "vw_get", !.key = body.password.v]]
                 /\ out' = Idle

(***************************************************************************)
(* Steps of a request.                                                     *)
(***************************************************************************)
\* A request arrives; the handler runs to the counter read of checkRateLimit.
Start(s, W) ==
    /\ reqs[s].pc = "idle"
    /\ \A s2 \in Slots : s2 < s => reqs[s2].pc # "idle"
    /\ W.sequential => \A s2 \in Slots : reqs[s2].pc = "idle"
    /\ \E kind \in W.kinds, ct \in W.contentTypes, h \in W.ipHeaders :
          LET r == [Idle EXCEPT !.kind = kind, !.ip = getClientIp(h)] IN
          IF ~validateContentType(ct)
          THEN /\ Respond(s, r, jsonResponse(400, "Invalid Content-Type"))
               /\ UNCHANGED nreq
          ELSE /\ nreq < W.limit
               /\ nreq' = IF W.counted THEN nreq + 1 ELSE nreq
               /\ reqs' = [reqs EXCEPT ![s] = [r EXCEPT !.pc = "rl_get", !.rlNow = now]]
               /\ out' = Idle
    /\ UNCHANGED <<now, kv, faults, ledger, rlh, secureContent, call>>

IdxAfter(idx) == IF idx < MaxIdx THEN idx + 1 ELSE idx

\* Another request of the client has read the counter and not yet written it.
ReadPending(s, ip) == \E s2 \in Slots \ {s} : reqs[s2].pc = "rl_put" /\ reqs[s2].ip = ip

\* await env.CONTENT_KV.get(key, { type: 'json' }) and the branch on its result.
RLGet(s, W) ==
    LET r == reqs[s]
        key == RLKey(r.ip)
        h == rlh[r.ip]
    IN
    /\ r.pc = "rl_get"
    /\ \E o \in Outcomes(W) :
          IF o = "throws"
          THEN LET r2 == [r EXCEPT !.acc = @ \cup {Access("get", key)},
                                   !.threw = @ \cup {Access("get", key)},
                                   !.rlDone = TRUE, !.allowed = rateLimitOnError,
                                   !.rlIdx = IdxAfter(h.idx), !.rlStart = h.start,
                                   !.afterDeny = h.denied]
               IN
               /\ faults' = faults + 1
               /\ rlh' = [rlh EXCEPT ![r.ip].idx = IdxAfter(@)]
               /\ IF rateLimitOnError
                  THEN AfterLimit(s, r2, W)
                  ELSE Respond(s, r2, jsonResponse(429, "Too many requests, please try again later"))
          ELSE LET got == KVget(kv, key, now)
                   data == IF got = None THEN None ELSE Some(JSON_parse(got[1]))
                   d == checkRateLimit(data, r.rlNow)
                   idx == IF data = None THEN 1 ELSE IdxAfter(h.idx)
                   start == IF data = None THEN r.rlNow ELSE h.start
                   r2 == [r EXCEPT !.acc = @ \cup {Access("get", key)},
                                   !.rlSeen = data, !.rlVal = d.put,
                                   !.rlDone = TRUE, !.allowed = d.allow,
                                   !.rlIdx = idx, !.rlStart = start,
                                   !.afterDeny = h.denied]
               IN
               /\ faults' = faults
               /\ rlh' = [rlh EXCEPT ![r.ip] =
                            [idx |-> idx, start |-> start, denied |-> ~d.allow,
                             overlapped |-> h.overlapped \/ (W.track /\ ReadPending(s, r.ip)),
                             allowedAt |-> IF W.track /\ d.allow
                                           THEN [h.allowedAt EXCEPT ![r.rlNow] = @ + 1]
                                           ELSE h.allowedAt]]
               /\ IF ~d.allow
                  THEN Respond(s, r2, jsonResponse(429, "Too many requests, please try again later"))
                  ELSE /\ reqs' = [reqs EXCEPT ![s] = [r2 EXCEPT !.pc = "rl_put"]]
                       /\ out' = Idle
    /\ UNCHANGED <<now, kv, nreq, ledger, secureContent, call>>

\* await env.CONTENT_KV.put(key, JSON.stringify(...), { expirationTtl }); return true.
RLPut(s, W) ==
    LET r == reqs[s]
        key == RLKey(r.ip)
    IN
    /\ r.pc = "rl_put"
    /\ \E o \in Outcomes(W) :
          IF o = "throws"
          THEN LET r2 == [r EXCEPT !.acc = @ \cup {Access("put", key)},
                                   !.threw = @ \cup {Access("put", key)},
                                   !.allowed = rateLimitOnError]
               IN
               /\ faults' = faults + 1
               /\ kv' = kv
               /\ IF rateLimitOnError
                  THEN AfterLimit(s, r2, W)
                  ELSE Respond(s, r2, jsonResponse(429, "Too many requests, please try again later"))
          ELSE /\ faults' = faults
               /\ kv' = KVput(kv, key, JSON_stringify(r.rlVal[1]), Some(RATE_LIMIT_WINDOW), now)
               /\ AfterLimit(s, [r EXCEPT !.acc = @ \cup {Access("put", key)}], W)
    /\ UNCHANGED <<now, nreq, ledger, rlh, secureContent, call>>

\* await env.CONTENT_KV.put(password, JSON.stringify(data)) and the 200 answer.
UploadPut(s, W) ==
    LET r == reqs[s] IN
    /\ r.pc = "up_put"
    /\ \E o \in Outcomes(W) :
          IF o = "throws"
          THEN /\ faults' = faults + 1
               /\ UNCHANGED <<kv, ledger>>
               /\ Respond(s, [r EXCEPT !.acc = @ \cup {Access("put", r.key)},
                                       !.threw = @ \cup {Access("put", r.key)}],
                          jsonResponse(500, "Server error"))
          ELSE /\ faults' = faults
               /\ kv' = KVput(kv, r.key, JSON_stringify(r.data[1]), None, now)
               /\ ledger' = [ledger EXCEPT ![r.key] =
                                [issued |-> TRUE, raw |-> r.body[1].content.v, n200 |-> 0,
                                 expiresAt |-> DateParse(r.data[1].expiresAt),
                                 purged |-> FALSE]]
               /\ Respond(s, [r EXCEPT !.acc = @ \cup {Access("put", r.key)}],
                          [NoResp EXCEPT !.status = 200,
                                         !.password = Some(r.data[1].password),
                                         !.expiresAt = Some(r.data[1].expiresAt),
                                         !.expiresIn = Some(r.hours)])
    /\ UNCHANGED <<now, nreq, rlh, secureContent, call>>

\* await env.CONTENT_KV.get(password), the 404 answer, the expiry check.
ViewGet(s, W) ==
    LET r == reqs[s] IN
    /\ r.pc = "vw_get"
    /\ \E o \in Outcomes(W) :
          IF o = "throws"
          THEN /\ faults' = faults + 1
               /\ Respond(s, [r EXCEPT !.acc = @ \cup {Access("get", r.key)},
                                       !.threw = @ \cup {Access("get", r.key)}],
                          jsonResponse(500, "Server error"))
          ELSE LET contentStr == KVget(kv, r.key, now)
                   r2 == [r EXCEPT !.acc = @ \cup {Access("get", r.key)}, !.at = now,
                                   !.purgedBefore = ledger[r.key].purged]
               IN
               /\ faults' = faults
               /\ IF contentStr = None
                  THEN Respond(s, r2, viewMiss)
                  ELSE LET data == JSON_parse(contentStr[1]) IN
                       /\ out' = Idle
                       /\ IF isExpired(data, now)
                          THEN reqs' = [reqs EXCEPT ![s] =
                                   [r2 EXCEPT !.pc = "vw_del", !.seen = Some(data)]]
                          ELSE reqs' = [reqs EXCEPT ![s] =
                                   [r2 EXCEPT !.pc = "vw_put", !.seen = Some(data),
                                              !.data = Some(bumpViews(data))]]
    /\ UNCHANGED <<now, kv, nreq, ledger, rlh, secureContent, call>>

\* await env.CONTENT_KV.delete(password) and the 410 answer.
ViewDelete(s, W) ==
    LET r == reqs[s] IN
    /\ r.pc = "vw_del"
    /\ \E o \in Outcomes(W) :
          IF o = "throws"
          THEN /\ faults' = faults + 1
               /\ UNCHANGED <<kv, ledger>>
               /\ Respond(s, [r EXCEPT !.acc = @ \cup {Access("delete", r.key)},
                                       !.threw = @ \cup {Access("delete", r.key)}],
                          jsonResponse(500, "Server error"))
          ELSE /\ faults' = faults
               /\ kv' = KVdelete(kv, r.key)
               /\ ledger' = [ledger EXCEPT ![r.key].purged = TRUE]
               /\ Respond(s, [r EXCEPT !.acc = @ \cup {Access("delete", r.key)}],
                          jsonResponse(410, "Content expired"))
    /\ UNCHANGED <<now, nreq, rlh, secureContent, call>>

\* await env.CONTENT_KV.put(password, JSON.stringify(data)) and the 200 answer.
ViewPut(s, W) ==
    LET r == reqs[s] IN
    /\ r.pc = "vw_put"
    /\ \E o \in Outcomes(W) :
          IF o = "throws"
          THEN /\ faults' = faults + 1
               /\ UNCHANGED <<kv, ledger>>
               /\ Respond(s, [r EXCEPT !.acc = @ \cup {Access("put", r.key)},
                                       !.threw = @ \cup {Access("put", r.key)}],
                          jsonResponse(500, "Server error"))
          ELSE /\ faults' = faults
               /\ kv' = KVput(kv, r.key, JSON_stringify(r.data[1]), None, now)
               /\ ledger' = [ledger EXCEPT ![r.key].n200 = @ + 1]
               /\ Respond(s, [r EXCEPT !.acc = @ \cup {Access("put", r.key)}],
                          [NoResp EXCEPT !.status = 200,
                                         !.content = Some(r.data[1].content),
                                         !.createdAt = Some(r.data[1].createdAt),
                                         !.expiresAt = Some(r.data[1].expiresAt),
                                         !.views = Some(r.data[1].views)])
    /\ UNCHANGED <<now, nreq, rlh, secureContent, call>>

\* Time passes.
Tick(W) ==
    /\ \E t \in W.instants : t > now /\ now' = t
    /\ out' = Idle
    /\ UNCHANGED <<kv, reqs, nreq, faults, ledger, rlh, secureContent, call>>

(***************************************************************************)
(* Secure Content (src/unnamed/part_000).  Its handlers are taken one at a *)
(* time, each as one step.                                                 *)
(***************************************************************************)
HexChar(d) == IF d < 10 THEN 48 + d ELSE 97 + (d - 10)

RECURSIVE CodeSum(_)
CodeSum(s) == IF s = <<>> THEN 0 ELSE Head(s).c * Head(s).n + CodeSum(Tail(s))

\* hashPassword: 64 lower-case hexadecimal digits computed from the password.
\* SHA-256 itself is stood for by a digest of the code units that tells the
\* passwords of this model apart.
hashPassword(password) == Rep(HexChar(CodeSum(password) % 16), 64)

AdminSecret == FromCodes(<<115, 51, 99, 114, 51, 116>>)
WrongSecret == FromCodes(<<103, 117, 101, 115, 115>>)
AdminPasswords == {FromCodes(<<97, 108, 112, 104, 97>>), FromCodes(<<98, 101, 116, 97>>)}
Title == FromCodes(<<75, 101, 121, 115>>)
ItemA == [label |-> FromCodes(<<65>>), content |-> FromCodes(<<49>>)]
ItemB == [label |-> FromCodes(<<66>>), content |-> FromCodes(<<50>>)]
AdminKeys == {hashPassword(p) : p \in AdminPasswords}

AdminSecretInputs == {JUndef, JStr(AdminSecret), JStr(WrongSecret)}

\* A request body of Secure Content: what request.json() does with it and, for
\* an object, the fields the handlers read (JUndef for a field left out).
AdminBody(a, p, t, i, e, h) ==
    [parse |-> "object", adminPassword |-> a, password |-> p, title |-> t,
     items |-> i, expiresAt |-> e, hash |-> h]

UnreadableBodies ==
    {[AdminBody(JUndef, JUndef, JUndef, JUndef, JUndef, JUndef) EXCEPT !.parse = ps] :
        ps \in {"malformed", "null"}}

VerifyBodies ==
    UnreadableBodies
        \cup {AdminBody(JUndef, p, JUndef, JUndef, JUndef, JUndef) :
                 p \in {JStr(x) : x \in AdminPasswords} \cup {JUndef, JStr(<<>>)}}

AddBody(a, p, e) == AdminBody(a, JStr(p), JStr(Title), JArr(<<ItemA, ItemB>>), e, JUndef)

AddBodies ==
    UnreadableBodies
        \cup {AddBody(a, p, e) :
                 a \in AdminSecretInputs, p \in AdminPasswords,
                 e \in {JUndef, JDate(1 * MsPerHour)}}
        \cup UNION {{[AddBody(a, p, JUndef) EXCEPT !.password = JUndef],
                     [AddBody(a, p, JUndef) EXCEPT !.title = JUndef],
                     [AddBody(a, p, JUndef) EXCEPT !.items = JUndef],
                     [AddBody(a, p, JUndef) EXCEPT !.items = JStr(Title)],
                     [AddBody(a, p, JUndef) EXCEPT !.items = JArr(<<>>)],
                     [AddBody(a, p, JUndef) EXCEPT !.items = JArr(<<ItemB, ItemA>>)],
                     [AddBody(a, p, JUndef) EXCEPT !.expiresAt = JStr(Title)]} :
                 a \in {JStr(AdminSecret), JStr(WrongSecret)},
                 p \in {FromCodes(<<97, 108, 112, 104, 97>>)}}

DeleteBodies ==
    UnreadableBodies
        \cup {AdminBody(a, JUndef, JUndef, JUndef, JUndef, h) :
                 a \in AdminSecretInputs, h \in {JStr(k) : k \in AdminKeys} \cup {JUndef}}

ListBodies ==
    UnreadableBodies
        \cup {AdminBody(a, JUndef, JUndef, JUndef, JUndef, JUndef) : a \in AdminSecretInputs}

NoAdminRequest ==
    [endpoint |-> "none", body |-> None, status |-> 0, message |-> "", data |-> None,
     items |-> {}, acc |-> {}, threw |-> {}]

\* jsonResponse of Secure Content for the request to `endpoint` carrying `body`.
AdminAnswer(endpoint, body, status, message, acc, threw) ==
    [NoAdminRequest EXCEPT !.endpoint = endpoint, !.body = Some(body), !.status = status,
                           !.message = message, !.acc = acc, !.threw = threw]

\* Mutant: only a secret that was sent is compared.
secretMismatchIfSent(adminPassword, e) ==
    Truthy(adminPassword) /\ adminPassword # e.ADMIN_PASSWORD

\* adminPassword !== env.ADMIN_PASSWORD
secretMismatch(adminPassword, e) == adminPassword # e.ADMIN_PASSWORD

\* Mutant: no record counts as expired.
adminExpiredNever(data, t) == FALSE

\* data.expiresAt && new Date(data.expiresAt) < new Date(); a string that is no
\* date gives an invalid Date, which compares false.
adminExpired(data, t) ==
    /\ Truthy(data.expiresAt)
    /\ data.expiresAt.t = "date"
    /\ data.expiresAt.v[1] < t

\* const { ... } = await request.json() throws: the catch block answers 500.
BodyThrows(body) == body.parse # "object"

\* Store calls of the other Worker throw under the same budget.
AdminOutcomes == IF faults < MaxFaults THEN {"ok", "throws"} ELSE {"ok"}

handleVerify ==
    \E body \in VerifyBodies, o \in AdminOutcomes :
        LET key == hashPassword(body.password.v)
            got == Access("get", key)
        IN
        /\ UNCHANGED <<akv, aledger>>
        /\ IF BodyThrows(body)
           THEN /\ o = "ok" /\ faults' = faults
                /\ aout' = AdminAnswer("verify", body, 500, "Server error", {}, {})
           ELSE IF ~Truthy(body.password)
           THEN /\ o = "ok" /\ faults' = faults
                /\ aout' = AdminAnswer("verify", body, 400, "Password required", {}, {})
           ELSE IF o = "throws"
           THEN /\ faults' = faults + 1
                /\ aout' = AdminAnswer("verify", body, 500, "Server error", {got}, {got})
           ELSE /\ faults' = faults
                /\ IF akv[key] = None
                   THEN aout' = AdminAnswer("verify", body, 401, "Invalid password", {got}, {})
                   ELSE IF adminExpired(JSON_parse(akv[key][1]), now)
                   THEN aout' = AdminAnswer("verify", body, 401, "Content expired", {got}, {})
                   ELSE aout' = [AdminAnswer("verify", body, 200, "", {got}, {})
                                    EXCEPT !.data = Some(JSON_parse(akv[key][1]))]
    /\ UNCHANGED <<now, env, tempShare, call>>

\* Mutant: the items are stored in reverse order.
adminRecordReversed(body, t) ==
    [title |-> body.title,
     items |-> JArr([i \in 1..Len(body.items.v) |->
                        body.items.v[Len(body.items.v) + 1 - i]]),
     createdAt |-> toISOString(t),
     expiresAt |-> IF Truthy(body.expiresAt) THEN body.expiresAt ELSE JNull]

\* const data = { title, items, createdAt: new Date().toISOString(),
\*                expiresAt: expiresAt || null }
adminRecord(body, t) ==
    [title |-> body.title, items |-> body.items,
     createdAt |-> toISOString(t),
     expiresAt |-> IF Truthy(body.expiresAt) THEN body.expiresAt ELSE JNull]

handleAdminAdd ==
    \E body \in AddBodies, o \in AdminOutcomes :
        LET key == hashPassword(body.password.v)
            put == Access("put", key)
            data == adminRecord(body, now)
        IN
        /\ IF BodyThrows(body)
           THEN /\ o = "ok" /\ faults' = faults /\ UNCHANGED <<akv, aledger>>
                /\ aout' = AdminAnswer("add", body, 500, "Server error", {}, {})
           ELSE IF secretMismatch(body.adminPassword, env)
           THEN /\ o = "ok" /\ faults' = faults /\ UNCHANGED <<akv, aledger>>
                /\ aout' = AdminAnswer("add", body, 401, "Invalid admin password", {}, {})
           ELSE IF ~Truthy(body.password) \/ ~Truthy(body.title) \/ ~Truthy(body.items)
                     \/ body.items.t # "arr"
           THEN /\ o = "ok" /\ faults' = faults /\ UNCHANGED <<akv, aledger>>
                /\ aout' = AdminAnswer("add", body, 400, "Invalid data format", {}, {})
           ELSE IF o = "throws"
           THEN /\ faults' = faults + 1 /\ UNCHANGED <<akv, aledger>>
                /\ aout' = AdminAnswer("add", body, 500, "Server error", {put}, {put})
           ELSE /\ faults' = faults
                /\ akv' = [akv EXCEPT ![key] = Some(JSON_stringify(data))]
                /\ aledger' = [aledger EXCEPT ![key] = Some(body)]
                /\ aout' = AdminAnswer("add", body, 200, "Content added successfully", {put}, {})
    /\ UNCHANGED <<now, env, tempShare, call>>

handleAdminDelete ==
    \E body \in DeleteBodies, o \in AdminOutcomes :
        LET del == Access("delete", body.hash.v) IN
        /\ IF BodyThrows(body)
           THEN /\ o = "ok" /\ faults' = faults /\ UNCHANGED <<akv, aledger>>
                /\ aout' = AdminAnswer("delete", body, 500, "Server error", {}, {})
           ELSE IF secretMismatch(body.adminPassword, env)
           THEN /\ o = "ok" /\ faults' = faults /\ UNCHANGED <<akv, aledger>>
                /\ aout' = AdminAnswer("delete", body, 401, "Invalid admin password", {}, {})
           ELSE IF ~Truthy(body.hash)
           THEN /\ o = "ok" /\ faults' = faults /\ UNCHANGED <<akv, aledger>>
                /\ aout' = AdminAnswer("delete", body, 400, "Hash required", {}, {})
           ELSE IF o = "throws"
           THEN /\ faults' = faults + 1 /\ UNCHANGED <<akv, aledger>>
                /\ aout' = AdminAnswer("delete", body, 500, "Server error", {del}, {del})
           ELSE /\ faults' = faults
                /\ akv' = [akv EXCEPT ![body.hash.v] = None]
                /\ aledger' = [aledger EXCEPT ![body.hash.v] = None]
                /\ aout' = AdminAnswer("delete", body, 200, "Content deleted successfully",
                                       {del}, {})
    /\ UNCHANGED <<now, env, tempShare, call>>

\* One entry of the list answer.
listItem(key, data) ==
    [hash |-> key, title |-> data.title, itemCount |-> Len(data.items.v),
     createdAt |-> data.createdAt, expiresAt |-> data.expiresAt]

handleAdminList ==
    \E body \in ListBodies, o \in AdminOutcomes :
        LET names == {k \in AdminKeys : akv[k] # None}
            list == Access("list", <<>>)
        IN
        /\ UNCHANGED <<akv, aledger>>
        /\ IF BodyThrows(body)
           THEN /\ o = "ok" /\ faults' = faults
                /\ aout' = AdminAnswer("list", body, 500, "Server error", {}, {})
           ELSE IF secretMismatch(body.adminPassword, env)
           THEN /\ o = "ok" /\ faults' = faults
                /\ aout' = AdminAnswer("list", body, 401, "Invalid admin password", {}, {})
           ELSE IF o = "throws"
           THEN /\ faults' = faults + 1
                /\ aout' = AdminAnswer("list", body, 500, "Server error", {list}, {list})
           ELSE /\ faults' = faults
                /\ aout' = [AdminAnswer("list", body, 200, "",
                                        {list} \cup {Access("get", k) : k \in names}, {})
                               EXCEPT !.items = {listItem(k, JSON_parse(akv[k][1])) : k \in names}]
    /\ UNCHANGED <<now, env, tempShare, call>>

\* Time passes for Secure Content.
AdminTick ==
    /\ \E t \in ExpiryInstants : t > now /\ now' = t
    /\ aout' = NoAdminRequest
    /\ UNCHANGED <<faults, env, akv, aledger, tempShare, call>>

(***************************************************************************)
(* Specifications.                                                         *)
(***************************************************************************)
Init ==
    /\ now = 0
    /\ kv = [k \in Keys |-> None]
    /\ reqs = [s \in Slots |-> Idle]
    /\ out = Idle
    /\ nreq = 0
    /\ faults = 0
    /\ ledger = [k \in PasteKeys |->
                    [issued |-> FALSE, raw |-> <<>>, n200 |-> 0, expiresAt |-> 0,
                     purged |-> FALSE]]
    /\ rlh = [ip \in Ips |-> NoDecisions]
    /\ env = [ADMIN_PASSWORD |-> JStr(AdminSecret)]
    /\ akv = [k \in AdminKeys |-> None]
    /\ aledger = [k \in AdminKeys |-> None]
    /\ aout = NoAdminRequest
    /\ call = NoCall

\* A string is handed to sanitizeContent, and the result to it again.
InitSanitize ==
    /\ now = 0
    /\ kv = [k \in Keys |-> None]
    /\ reqs = [s \in Slots |-> Idle]
    /\ out = Idle
    /\ nreq = 0
    /\ faults = 0
    /\ ledger = [k \in PasteKeys |->
                    [issued |-> FALSE, raw |-> <<>>, n200 |-> 0, expiresAt |-> 0,
                     purged |-> FALSE]]
    /\ rlh = [ip \in Ips |-> NoDecisions]
    /\ env = [ADMIN_PASSWORD |-> JStr(AdminSecret)]
    /\ akv = [k \in AdminKeys |-> None]
    /\ aledger = [k \in AdminKeys |-> None]
    /\ aout = NoAdminRequest
    /\ call \in {[NoCall EXCEPT !.fn = "sanitizeContent", !.input = str] : str \in SmallStrings}

ApplySanitize ==
    /\ call.fn = "sanitizeContent" /\ call.n < 2
    /\ call' = [call EXCEPT !.n = @ + 1,
                            !.results = Append(@, sanitizeContent(
                                IF call.n = 0 THEN call.input ELSE call.results[call.n]))]
    /\ UNCHANGED <<now, faults, tempShare, secureContent>>

SpecSanitize == InitSanitize /\ [][ApplySanitize]_vars

\* A workload: how requests arrive and what they carry.
Hi == FromCodes(<<72, 105>>)

\* Concurrent requests of one client on one password.
Concurrent ==
    [sequential |-> FALSE, limit |-> MaxReqs, counted |-> TRUE, maxFaults |-> 0, track |-> FALSE,
     instants |-> ExpiryInstants, kinds |-> {"upload", "view"},
     contentTypes |-> {Some(<<"application/json">>)},
     ipHeaders |-> {None},
     arrays |-> {Rep(0, 16), Rep(62, 16)},
     uploadBodies |-> {[parse |-> "object", content |-> JStr(Hi), expiryHours |-> JNum(1)],
                       [parse |-> "object", content |-> JStr(Rep(0, 1) \o Hi),
                        expiryHours |-> JUndef]},
     viewBodies |-> {[parse |-> "object", password |-> JStr(p)] :
                        p \in {generatePassword(Rep(0, 16)), NeverIssued}}]

\* One request at a time, over every kind of input.
Sequential ==
    [sequential |-> TRUE, limit |-> MaxSeqReqs, counted |-> TRUE, maxFaults |-> 0, track |-> FALSE,
     instants |-> ExpiryInstants, kinds |-> {"upload", "view"},
     contentTypes |-> ContentTypes,
     ipHeaders |-> {Some(FromCodes(<<49, 48, 46, 48, 46, 48, 46, 49>>))},
     arrays |-> RandomArrays,
     uploadBodies |-> UploadBodies,
     viewBodies |-> ViewBodies]

\* One request at a time, each ending once the rate limiter has let it through;
\* store calls may throw.
LimiterOnly ==
    [sequential |-> TRUE, limit |-> 1, counted |-> FALSE, maxFaults |-> MaxFaults, track |-> FALSE,
     instants |-> WindowInstants, kinds |-> {"upload", "view"},
     contentTypes |-> {Some(<<"application/json">>), None},
     ipHeaders |-> {None},
     arrays |-> {Rep(0, 16)},
     uploadBodies |-> {[parse |-> "malformed", content |-> JUndef, expiryHours |-> JUndef]},
     viewBodies |-> {[parse |-> "object", password |-> JStr(Rep(65, 15))]}]

\* One client's requests, one at a time, each ending once the rate limiter has
\* let it through; no store call throws, and the requests allowed are kept per
\* instant of arrival.
Burst ==
    [sequential |-> TRUE, limit |-> 1, counted |-> FALSE, maxFaults |-> 0, track |-> TRUE,
     instants |-> WindowInstants, kinds |-> {"view"},
     contentTypes |-> {Some(<<"application/json">>)},
     ipHeaders |-> {None},
     arrays |-> {Rep(0, 16)},
     uploadBodies |-> {[parse |-> "malformed", content |-> JUndef, expiryHours |-> JUndef]},
     viewBodies |-> {[parse |-> "malformed", password |-> JUndef]}]

\* One request at a time, over bodies of every outcome; store calls may throw.
Faulty ==
    [sequential |-> TRUE, limit |-> MaxSeqReqs, counted |-> TRUE, maxFaults |-> MaxFaults, track |-> FALSE,
     instants |-> ExpiryInstants, kinds |-> {"upload", "view"},
     contentTypes |-> {Some(<<"application/json">>), None},
     ipHeaders |-> {None},
     arrays |-> {Rep(0, 16)},
     uploadBodies |-> {[parse |-> "malformed", content |-> JUndef, expiryHours |-> JUndef],
                       [parse |-> "null", content |-> JUndef, expiryHours |-> JUndef],
                       [parse |-> "object", content |-> JStr(Hi), expiryHours |-> JNum(1)],
                       [parse |-> "object", content |-> JStr(Rep(97, MAX_CONTENT_LENGTH + 1)),
                        expiryHours |-> JUndef],
                       [parse |-> "object", content |-> JUndef, expiryHours |-> JUndef]},
     viewBodies |-> {[parse |-> "malformed", password |-> JUndef],
                     [parse |-> "null", password |-> JUndef]}
                       \cup {[parse |-> "object", password |-> pw] :
                                pw \in {JStr(generatePassword(Rep(0, 16))), JStr(NeverIssued),
                                        JStr(Rep(65, 17)), JUndef}}]

\* Requests are handled concurrently, their store calls interleaved.
Next ==
    \/ \E s \in Slots : Start(s, Concurrent)
    \/ \E s \in Slots : RLGet(s, Concurrent)
    \/ \E s \in Slots : RLPut(s, Concurrent)
    \/ \E s \in Slots : UploadPut(s, Concurrent)
    \/ \E s \in Slots : ViewGet(s, Concurrent)
    \/ \E s \in Slots : ViewDelete(s, Concurrent)
    \/ \E s \in Slots : ViewPut(s, Concurrent)
    \/ Tick(Concurrent)

Spec == Init /\ [][Next]_vars

NextSeq ==
    \/ \E s \in Slots : Start(s, Sequential)
    \/ \E s \in Slots : RLGet(s, Sequential)
    \/ \E s \in Slots : RLPut(s, Sequential)
    \/ \E s \in Slots : UploadPut(s, Sequential)
    \/ \E s \in Slots : ViewGet(s, Sequential)
    \/ \E s \in Slots : ViewDelete(s, Sequential)
    \/ \E s \in Slots : ViewPut(s, Sequential)
    \/ Tick(Sequential)

SpecSeq == Init /\ [][NextSeq]_vars

NextRL ==
    \/ \E s \in Slots : Start(s, LimiterOnly)
    \/ \E s \in Slots : RLGet(s, LimiterOnly)
    \/ \E s \in Slots : RLPut(s, LimiterOnly)
    \/ Tick(LimiterOnly)

SpecRL == Init /\ [][NextRL]_vars

NextBurst ==
    \/ \E s \in Slots : Start(s, Burst)
    \/ \E s \in Slots : RLGet(s, Burst)
    \/ \E s \in Slots : RLPut(s, Burst)
    \/ Tick(Burst)

SpecBurst == Init /\ [][NextBurst]_vars

\* One client's requests handled concurrently, each ending once the rate limiter
\* has let it through; the requests allowed are kept per instant of arrival.
Race ==
    [sequential |-> FALSE, limit |-> MaxIdx, counted |-> TRUE, maxFaults |-> 0, track |-> TRUE,
     instants |-> {0, RATE_LIMIT_WINDOW * MsPerSecond},
     kinds |-> {"view"},
     contentTypes |-> {Some(<<"application/json">>)},
     ipHeaders |-> {None},
     arrays |-> {Rep(0, 16)},
     uploadBodies |-> {[parse |-> "malformed", content |-> JUndef, expiryHours |-> JUndef]},
     viewBodies |-> {[parse |-> "malformed", password |-> JUndef]}]

NextRace ==
    \/ \E s \in Slots : Start(s, Race)
    \/ \E s \in Slots : RLGet(s, Race)
    \/ \E s \in Slots : RLPut(s, Race)
    \/ Tick(Race)

SpecRace == Init /\ [][NextRace]_vars

NextFaulty ==
    \/ \E s \in Slots : Start(s, Faulty)
    \/ \E s \in Slots : RLGet(s, Faulty)
    \/ \E s \in Slots : RLPut(s, Faulty)
    \/ \E s \in Slots : UploadPut(s, Faulty)
    \/ \E s \in Slots : ViewGet(s, Faulty)
    \/ \E s \in Slots : ViewDelete(s, Faulty)
    \/ \E s \in Slots : ViewPut(s, Faulty)
    \/ Tick(Faulty)

SpecFaulty == Init /\ [][NextFaulty]_vars

\* Secure Content, deployed with or without an ADMIN_PASSWORD.
InitAdmin ==
    /\ now = 0
    /\ kv = [k \in Keys |-> None]
    /\ reqs = [s \in Slots |-> Idle]
    /\ out = Idle
    /\ nreq = 0
    /\ faults = 0
    /\ ledger = [k \in PasteKeys |->
                    [issued |-> FALSE, raw |-> <<>>, n200 |-> 0, expiresAt |-> 0,
                     purged |-> FALSE]]
    /\ rlh = [ip \in Ips |-> NoDecisions]
    /\ env \in {[ADMIN_PASSWORD |-> JStr(AdminSecret)], [ADMIN_PASSWORD |-> JUndef]}
    /\ akv = [k \in AdminKeys |-> None]
    /\ aledger = [k \in AdminKeys |-> None]
    /\ aout = NoAdminRequest
    /\ call = NoCall

NextAdmin ==
    \/ handleVerify
    \/ handleAdminAdd
    \/ handleAdminDelete
    \/ handleAdminList
    \/ AdminTick

SpecAdmin == InitAdmin /\ [][NextAdmin]_vars

(***************************************************************************)
(* Properties.  `out` is the request answered by the step just taken.      *)
(***************************************************************************)
Answered(kind) == out.kind = kind /\ out.pc = "done"

\* The request's body was read and is an object.
ParsedObject == out.body # None /\ out.body[1].parse = "object"

\* The request called get on the paste stored under its password.
LookedUp == Access("get", out.key) \in out.acc

NoFault == out.threw = {}

\* Reference: s without the control characters other than tab, newline and
\* carriage return.
Printable(c) == c \in {9, 10, 13} \/ (c >= 32 /\ c # 127)

RECURSIVE KeepPrintable(_)
KeepPrintable(s) ==
    IF s = <<>> THEN <<>>
    ELSE IF Printable(Head(s).c) THEN Cat(<<Head(s)>>, KeepPrintable(Tail(s)))
    ELSE KeepPrintable(Tail(s))

\* C1 (as stated): a view answered 200 returns the content exactly as it was
\* uploaded, and its views is the number of views answered since the upload.
C1_RoundTripUnchanged ==
    (Answered("view") /\ out.resp.status = 200) =>
        /\ out.resp.content = Some(ledger[out.key].raw)
        /\ out.resp.views = Some(ledger[out.key].n200)

\* C1 (amended): with one request at a time, a view answered 200 returns the
\* uploaded content without its control characters (tab, newline and carriage
\* return kept), so unchanged when it has none, and views counts the views
\* answered since the upload: 1 for the first, 2 for the second.
C1_RoundTrip ==
    (Answered("view") /\ out.resp.status = 200) =>
        /\ out.resp.content = Some(KeepPrintable(ledger[out.key].raw))
        /\ out.resp.views = Some(ledger[out.key].n200)
        /\ ledger[out.key].n200 >= 1

\* C1 witness: the second view of an upload whose content had control characters.
C1_Witness ==
    /\ Answered("view") /\ out.resp.status = 200
    /\ out.resp.views = Some(2)
    /\ out.resp.content # Some(ledger[out.key].raw)
    /\ out.resp.content = Some(KeepPrintable(ledger[out.key].raw))

\* C2 (as stated): a view never returns a record whose expiresAt is in the
\* past; the view that finds such a record answers 410; and once a view has
\* deleted the expired record, every later view with that password (no upload
\* having returned the password again) answers 404, not 410.
C2_ExpiredThenNotFound ==
    Answered("view") =>
        /\ out.resp.status = 200 => DateParse(out.seen[1].expiresAt) >= out.at
        /\ (out.seen # None /\ DateParse(out.seen[1].expiresAt) < out.at)
              => out.resp.status = 410
        /\ (LookedUp /\ out.purgedBefore) => out.resp.status = 404

\* C3 (as stated): a view that finds a record returns it if and only if the
\* time of the check is strictly before expiresAt.
C3_ReadableStrictlyBefore ==
    (Answered("view") /\ out.seen # None) =>
        (out.resp.status = 200 <=> out.at < DateParse(out.seen[1].expiresAt))

\* C3 (amended): a view that finds a record returns it (200) if and only if the
\* time of its expiry check is at or before expiresAt, and answers 410
\* otherwise; a view at the instant now == expiresAt returns the content.
C3_ReadableUntilExpiry ==
    (Answered("view") /\ out.seen # None) =>
        /\ out.resp.status = 200 <=> out.at <= DateParse(out.seen[1].expiresAt)
        /\ out.resp.status = 410 <=> out.at > DateParse(out.seen[1].expiresAt)

\* C3 witness: a view at the instant expiresAt that returns the content.
C3_Witness ==
    /\ Answered("view") /\ out.seen # None
    /\ out.at = DateParse(out.seen[1].expiresAt)
    /\ out.resp.status = 200 /\ out.resp.content # None

\* The latest record issued under the request's password had expired when the
\* request looked it up.
IssuedAndExpired == ledger[out.key].issued /\ ledger[out.key].expiresAt < out.at

\* C4 (as stated): a view with a well-formed password that was never issued and
\* one with a password that was issued and has since expired get the same
\* answer, status and message.
C4_NeverIssuedLikeExpired ==
    (Answered("view") /\ LookedUp /\ (~ledger[out.key].issued \/ IssuedAndExpired)) =>
        (out.resp.status = 404 /\ out.resp.message = "Invalid password or content expired")

\* C4 (amended): a view with a well-formed password that was never issued and
\* one with a password that was issued, has expired and whose record is no
\* longer in the store at the lookup get the same answer: 404 with the message
\* 'Invalid password or content expired'.
C4_NeverIssuedLikeDeleted ==
    (Answered("view") /\ LookedUp /\ out.seen = None
        /\ (~ledger[out.key].issued \/ IssuedAndExpired)) =>
        (out.resp.status = 404 /\ out.resp.message = "Invalid password or content expired")

\* C4 witness: a view of an issued password after its record expired and was deleted.
C4_Witness ==
    /\ Answered("view") /\ LookedUp /\ out.seen = None
    /\ IssuedAndExpired /\ ledger[out.key].purged
    /\ out.resp.status = 404

\* Reference: the password is not a string of exactly 16 letters and digits.
BadShape(password) ==
    \/ password.t # "str"
    \/ StrLen(password.v) # 16
    \/ \E c \in CodeUnits(password.v) :
          ~(c \in 48..57 \/ c \in 65..90 \/ c \in 97..122)

OnCounter(a) == a.key = RLKey(out.ip)

\* C5 (as stated): a view whose password has the wrong shape is answered 400
\* without any get, put or delete on the store.
C5_RejectedBeforeAnyStoreCall ==
    (Answered("view") /\ ParsedObject /\ BadShape(out.body[1].password)) =>
        (out.resp.status = 400 /\ out.acc = {})

\* C5 (amended): a view whose password has the wrong shape, once the rate
\* limiter has let it through, is answered 400 without any get, put or delete
\* on a paste: the only store calls of the request are the rate limiter's read
\* and write of the client's counter.
C5_RejectedBeforePasteAccess ==
    (Answered("view") /\ out.allowed /\ ParsedObject /\ BadShape(out.body[1].password)) =>
        /\ out.resp.status = 400
        /\ \A a \in out.acc : OnCounter(a)
        /\ out.acc # {}

\* C5 witness: a 17-character password is refused.
C5_Witness ==
    /\ Answered("view") /\ ParsedObject
    /\ out.body[1].password.t = "str" /\ StrLen(out.body[1].password.v) = 17
    /\ out.resp.status = 400

\* C6 (as stated): an upload whose content is 10240 bytes is accepted, and one
\* whose content is 10241 bytes is refused with 400 'too large' and no put.
C6_SizeBoundaryBytes ==
    (Answered("upload") /\ ParsedObject /\ out.body[1].content.t = "str") =>
        /\ ByteLen(out.body[1].content.v) = 10240 => out.resp.status = 200
        /\ ByteLen(out.body[1].content.v) = 10241 =>
              /\ out.resp.status = 400
              /\ out.resp.message = "Content too large (max 10KB)"
              /\ \A a \in out.acc : OnCounter(a)

\* The request is one of a run of non-overlapping requests that began when the
\* client had no counter record, all within one window of the first, and no
\* store call has thrown.
InOneWindow == out.rlDone /\ faults = 0 /\ out.rlNow - out.rlStart < 60 * 1000

\* C7 (as stated): of the requests one client issues within one window,
\* starting with no counter record, the first 10 are allowed and the 11th is
\* denied with 429.
C7_EleventhDenied ==
    (out.pc = "done" /\ InOneWindow) =>
        /\ out.rlIdx <= 10 => (out.allowed /\ out.resp.status # 429)
        /\ out.rlIdx = 11 => (~out.allowed /\ out.resp.status = 429)

\* The counter record of the request's client, as a get would return it now.
CounterNow ==
    LET got == KVget(kv, RLKey(out.ip), now) IN
    IF got = None THEN None ELSE Some(JSON_parse(got[1]))

\* C8 (as stated): the first request after a denial that finds the window
\* elapsed (the stored windowStart more than 60 s old, or the record removed by
\* its time-to-live) is allowed and leaves the counter at count 1 with
\* windowStart equal to the time of the request.
C8_ResetAfterWindow ==
    (out.pc = "done" /\ out.rlDone /\ faults = 0 /\ out.afterDeny
        /\ (out.rlSeen = None \/ out.rlSeen[1].windowStart < out.rlNow - 60 * 1000)) =>
        /\ out.allowed /\ out.resp.status # 429
        /\ CounterNow # None
        /\ CounterNow[1].count = 1
        /\ CounterNow[1].windowStart = out.rlNow

\* The counter read or the counter write of the request threw.
CounterCallThrew == \E a \in out.threw : OnCounter(a)

\* C9: when the counter read or write of the rate limiter throws,
\* checkRateLimit returns true and the request is not answered 429, whatever
\* the counter held.
C9_FailOpen ==
    (out.pc = "done" /\ CounterCallThrew) => (out.allowed /\ out.resp.status # 429)

\* C9 witness: the counter read throws for a client whose counter stands at the
\* maximum, and the request goes on to be answered 400.
C9_Witness ==
    /\ out.pc = "done" /\ CounterCallThrew
    /\ CounterNow # None /\ CounterNow[1].count = 10
    /\ out.resp.status = 400

\* The request's adminPassword is not the configured admin secret.
IncorrectSecret(r) ==
    /\ r.endpoint \in {"add", "delete", "list"}
    /\ r.body[1].parse = "object"
    /\ r.body[1].adminPassword # env.ADMIN_PASSWORD

\* C10: a request to /api/admin/add, /api/admin/delete or /api/admin/list whose
\* body is read and carries an adminPassword other than env.ADMIN_PASSWORD (or
\* none, when one is configured) is answered 401, calls the store not at all
\* and leaves it unchanged, whatever else its body holds.
C10_AdminIsolation ==
    [][IncorrectSecret(aout') => (aout'.status = 401 /\ aout'.acc = {} /\ akv' = akv)]_vars

\* C10 witness: an add with a wrong secret and an otherwise valid body, refused
\* while the store holds a record.
C10_Witness ==
    /\ aout.endpoint = "add" /\ IncorrectSecret(aout)
    /\ Truthy(aout.body[1].password) /\ Truthy(aout.body[1].title)
    /\ aout.body[1].items.t = "arr"
    /\ aout.status = 401
    /\ \E k \in AdminKeys : akv[k] # None

\* The verify just answered read the store without a throw, for a password
\* whose latest successful add, not deleted since, sent no expiresAt.
VerifiedAfterAdd ==
    /\ aout.endpoint = "verify" /\ aout.body[1].parse = "object"
    /\ Truthy(aout.body[1].password)
    /\ aout.threw = {}
    /\ aledger[hashPassword(aout.body[1].password.v)] # None
    /\ aledger[hashPassword(aout.body[1].password.v)][1].expiresAt = JUndef

\* C11: after a successful add of {password p, title t, items i} without
\* expiresAt, every verify with p whose store read succeeds answers 200 with
\* exactly title t and items i, in the order sent, until a later successful add
\* for p or delete of p's digest.
C11_AdminRoundTrip ==
    VerifiedAfterAdd =>
        LET sent == aledger[hashPassword(aout.body[1].password.v)][1] IN
        /\ aout.status = 200
        /\ aout.data # None
        /\ aout.data[1].title = sent.title
        /\ aout.data[1].items = sent.items
        /\ aout.data[1].expiresAt = JNull

\* C11 witness: a verify, after time has passed, of items added as B then A.
C11_Witness ==
    /\ VerifiedAfterAdd /\ now > 0
    /\ aout.status = 200
    /\ aout.data[1].items = JArr(<<ItemB, ItemA>>)

\* Reference: the string sub occurs in the string s (both run-length encoded):
\* its first and last runs fit inside runs of s and the runs between are runs
\* of s.
Contains(s, sub) ==
    \/ sub = <<>>
    \/ \E i \in 1..Len(s) :
          /\ i + Len(sub) - 1 <= Len(s)
          /\ \A j \in 1..Len(sub) :
                /\ s[i + j - 1].c = sub[j].c
                /\ IF j = 1 \/ j = Len(sub)
                   THEN s[i + j - 1].n >= sub[j].n
                   ELSE s[i + j - 1].n = sub[j].n

\* The strings the store holds under key k: the key and, for a paste, the
\* string fields of its value.
StoredStrings(k) ==
    IF kv[k] = None THEN {}
    ELSE IF k \in PasteKeys
    THEN {k, JSON_parse(kv[k][1].val).content, JSON_parse(kv[k][1].val).password}
    ELSE {k}

\* C12 (as stated): once an upload has returned its password, no key and no
\* value in the store contains that password.
C12_NoPlaintextPassword ==
    (Answered("upload") /\ out.resp.status = 200) =>
        \A k \in Keys : \A str \in StoredStrings(k) :
            ~Contains(str, out.resp.password[1])

\* The paste stored under key k, parsed.
PasteAt(store, k) == JSON_parse(store[k][1].val)

\* Two stored pastes differ at most in views.
SameButViews(a, b) ==
    /\ a.content = b.content /\ a.password = b.password
    /\ a.createdAt = b.createdAt /\ a.expiresAt = b.expiresAt

C14_ViewsNeverDecrease ==
    [][\A k \in PasteKeys :
          (/\ kv[k] # None /\ kv'[k] # None
           /\ ~(out'.kind = "upload" /\ out'.pc = "done" /\ out'.key = k)) =>
              PasteAt(kv', k).views >= PasteAt(kv, k).views]_vars

\* Reference: the number of code units c in the string s.
RECURSIVE Count(_, _)
Count(s, c) ==
    IF s = <<>> THEN 0
    ELSE (IF Head(s).c = c THEN Head(s).n ELSE 0) + Count(Tail(s), c)

\* C15: sanitizeContent(sanitizeContent(s)) = sanitizeContent(s), and
\* sanitizeContent(s) holds no code unit in 0x00-0x08, 0x0B-0x0C, 0x0E-0x1F or
\* 0x7F and as many newlines and tabs as s.
C15_SanitizeIdempotent ==
    (call.fn = "sanitizeContent" /\ call.n >= 1) =>
        /\ \A c \in CodeUnits(call.results[1]) :
              ~(c \in 0..8 \/ c \in 11..12 \/ c \in 14..31 \/ c = 127)
        /\ Count(call.results[1], 10) = Count(call.input, 10)
        /\ Count(call.results[1], 9) = Count(call.input, 9)
        /\ call.n = 2 => call.results[2] = call.results[1]

\* C15 witness: a string with a tab between two stripped characters has been
\* sanitized twice, the first time to a shorter string.
C15_Witness ==
    /\ call.fn = "sanitizeContent" /\ call.n = 2
    /\ call.input = FromCodes(<<127, 9, 0>>)
    /\ call.results[1] = FromCodes(<<9>>)

\* A request in flight is at an awaited store call of its handler.
AtStoreCall(r) ==
    \/ r.pc \in {"rl_get", "rl_put"}
    \/ r.kind = "upload" /\ r.pc = "up_put"
    \/ r.kind = "view" /\ r.pc \in {"vw_get", "vw_del", "vw_put"}

\* C16: every request is at a store call of its handler, which returns or
\* throws, until it is answered, once; an upload is answered 200, 400, 429 or
\* 500 and a view 200, 400, 404, 410, 429 or 500, also when a store call threw.
C16_StatusSets ==
    /\ \A s \in Slots : reqs[s].pc # "idle" => AtStoreCall(reqs[s])
    /\ out.pc \in {"idle", "done"}
    /\ Answered("upload") => out.resp.status \in {200, 400, 429, 500}
    /\ Answered("view") => out.resp.status \in {200, 400, 404, 410, 429, 500}

\* C16 witness: the delete of an expired record throws and the view is
\* answered 500.
C16_Witness ==
    /\ Answered("view") /\ Access("delete", out.key) \in out.threw
    /\ out.resp.status = 500

\* The request to Secure Content is malformed: its body is no JSON, or is no
\* object, or lacks a field the endpoint requires (for an admin endpoint, given
\* the configured secret).
MalformedAdminRequest ==
    /\ aout.endpoint # "none"
    /\ \/ aout.body[1].parse # "object"
       \/ aout.endpoint = "verify" /\ ~Truthy(aout.body[1].password)
       \/ /\ aout.endpoint = "add"
          /\ aout.body[1].adminPassword = env.ADMIN_PASSWORD
          /\ \/ ~Truthy(aout.body[1].password) \/ ~Truthy(aout.body[1].title)
             \/ aout.body[1].items.t # "arr"
       \/ /\ aout.endpoint = "delete"
          /\ aout.body[1].adminPassword = env.ADMIN_PASSWORD
          /\ ~Truthy(aout.body[1].hash)

\* C17 (as stated): a malformed request is answered 400, never 500.
C17_MalformedIs400 == MalformedAdminRequest => aout.status = 400

\* C18: the password an upload returns with 200 is 16 code units long, each a
\* letter or a digit, passes validatePassword, and is the key under which the
\* store now holds the record of that upload, whose password field it is.
C18_PasswordShape ==
    (Answered("upload") /\ out.resp.status = 200) =>
        LET pw == out.resp.password[1] IN
        /\ StrLen(pw) = 16
        /\ \A c \in CodeUnits(pw) : c \in 48..57 \/ c \in 65..90 \/ c \in 97..122
        /\ validatePassword(JStr(pw))
        /\ kv[pw] # None
        /\ PasteAt(kv, pw).password = pw
        /\ PasteAt(kv, pw).content = KeepPrintable(out.body[1].content.v)
        /\ PasteAt(kv, pw).views = 0

\* C18 witness: an upload returned a password of lower-case letters and digits
\* drawn from the upper half of the alphabet.
C18_Witness ==
    /\ Answered("upload") /\ out.resp.status = 200
    /\ out.resp.password[1] = Rep(98, 8) \o Rep(57, 8)
    /\ kv[out.resp.password[1]] # None

\* Reference: the hours an upload asks for.
HoursAsked(body) ==
    IF body.expiryHours \in {JNum(1), JNum(6), JNum(24), JNum(168)}
    THEN body.expiryHours.v[1]
    ELSE 24

\* C19: an upload answered 200 used expiryHours when it is 1, 6, 24 or 168 and
\* 24 otherwise; the stored expiresAt is the stored createdAt plus exactly that
\* many hours, the answer's expiresAt is the stored one, and its expiresIn is
\* those hours.
C19_ExpiryHours ==
    (Answered("upload") /\ out.resp.status = 200) =>
        LET rec == PasteAt(kv, out.resp.password[1])
            hours == HoursAsked(out.body[1])
        IN
        /\ DateParse(rec.expiresAt) = DateParse(rec.createdAt) + hours * 3600000
        /\ DateParse(rec.createdAt) = out.at
        /\ out.resp.expiresAt = Some(rec.expiresAt)
        /\ out.resp.expiresIn = Some(hours)

\* C19 witness: an upload asking for 168 hours, made after the origin of time.
C19_Witness ==
    /\ Answered("upload") /\ out.resp.status = 200
    /\ out.body[1].expiryHours = JNum(168) /\ out.at > 0
    /\ out.resp.expiresIn = Some(168)

\* C20 (as stated): a request that finds no counter record for its client is
\* allowed and writes a record with count 1, windowStart equal to the time of
\* the check, and a time-to-live of one window.
C20_FirstRequestRecord ==
    (out.pc = "done" /\ out.rlDone /\ faults = 0 /\ out.rlSeen = None) =>
        LET rec == kv[RLKey(out.ip)] IN
        /\ out.allowed
        /\ rec # None
        /\ JSON_parse(rec[1].val).count = 1
        /\ rec[1].exp = Some(now + 60 * 1000)
        /\ JSON_parse(rec[1].val).windowStart = out.rlNow

\* Reference: the requests of client ip the limiter allowed among those that
\* arrived at the instants of the set ts.
RECURSIVE AllowedIn(_, _)
AllowedIn(ip, ts) ==
    IF ts = {} THEN 0
    ELSE LET t == CHOOSE x \in ts : TRUE IN
         rlh[ip].allowedAt[t] + AllowedIn(ip, ts \ {t})

\* The instants from a to b.
Span(a, b) == {t \in WindowInstants : a <= t /\ t <= b}

\* C21 (as stated): with one client's requests handled one at a time and no
\* store call throwing, the requests the limiter allows among those arriving in
\* any span of at most 60 s are at most 20.
C21_BurstBound ==
    \A ip \in Ips : \A a, b \in WindowInstants :
        (a <= b /\ b - a <= 60 * 1000) => AllowedIn(ip, Span(a, b)) <= 20

\* The requests of the client allowed so far, all of them before any time passed.
AllowedAtOnce(ip) == IF now = 0 THEN rlh[ip].allowedAt[0] ELSE 0

\* C22: concurrent requests of one client can be allowed more than 10 times
\* within a single window (the witness), and only by overlapping: when more
\* than 10 requests of a client were allowed before any time passed, one of
\* them read the counter between the read and the write of another.
C22_OverLimitOnlyByOverlap ==
    \A ip \in Ips : AllowedAtOnce(ip) > RATE_LIMIT_MAX_REQUESTS => rlh[ip].overlapped

\* More than 10 requests of one client allowed at the same instant.
C22_Witness ==
    \E ip \in Ips : AllowedAtOnce(ip) > RATE_LIMIT_MAX_REQUESTS /\ rlh[ip].overlapped

\* The request was answered 400 for its Content-Type header.
RejectedForContentType(r) ==
    r.pc = "done" /\ r.resp.status = 400 /\ r.resp.message = "Invalid Content-Type"

\* The request was answered 400 for its body: malformed JSON or a bad shape.
RejectedForBody(r) ==
    /\ r.pc = "done" /\ r.resp.status = 400
    /\ r.resp.message \in {"Invalid JSON", "Content is required",
                           "Content too large (max 10KB)", "Invalid password format"}

\* The request has been counted: it read the counter and wrote it back, one
\* higher than it read it, or at 1 when it read none or one of an elapsed window.
Counted(store, r) ==
    LET key == RLKey(r.ip) IN
    /\ Access("get", key) \in r.acc /\ Access("put", key) \in r.acc
    /\ store[key] # None
    /\ JSON_parse(store[key][1].val).count =
          IF r.rlSeen = None
                \/ r.rlSeen[1].windowStart < r.rlNow - RATE_LIMIT_WINDOW * MsPerSecond
          THEN 1 ELSE r.rlSeen[1].count + 1

\* C23: the content-type check precedes the rate-limit check, which precedes
\* the reading of the body: a request refused for its Content-Type has called
\* the store not at all and leaves it unchanged, a request answered 429 has not
\* read its body, and a request refused for malformed JSON or a bad shape has
\* been through the rate-limit check and, its counter calls not having thrown,
\* has been counted.
C23_CheckOrdering ==
    [][/\ RejectedForContentType(out') =>
              (out'.acc = {} /\ ~out'.rlDone /\ out'.body = None /\ kv' = kv)
       /\ (out'.pc = "done" /\ out'.resp.status = 429) => out'.body = None
       /\ RejectedForBody(out') =>
              /\ out'.rlDone /\ out'.allowed
              /\ out'.threw = {} => Counted(kv', out')]_vars

\* C23 witness: a request refused for malformed JSON that brought its
\* client's counter from 1 to 2.
C23_Witness ==
    /\ RejectedForBody(out) /\ out.resp.message = "Invalid JSON"
    /\ out.threw = {} /\ Counted(kv, out)
    /\ out.rlSeen # None /\ out.rlSeen[1].count = 1
    /\ CounterNow # None /\ CounterNow[1].count = 2

\* The verify read the store without a throw and found a record whose
\* expiresAt is a date before the present.
VerifiedExpired(r, store) ==
    /\ r.endpoint = "verify" /\ r.body[1].parse = "object"
    /\ Truthy(r.body[1].password)
    /\ r.threw = {}
    /\ store[hashPassword(r.body[1].password.v)] # None
    /\ LET data == JSON_parse(store[hashPassword(r.body[1].password.v)][1]) IN
          data.expiresAt.t = "date" /\ data.expiresAt.v[1] < now

\* C24: a request to /api/verify, whatever its outcome, calls nothing but get
\* on the store and leaves every entry as it was; when the record it finds has
\* expired it answers 401 and the record stays.
C24_VerifyReadOnly ==
    [][aout'.endpoint = "verify" =>
          /\ akv' = akv
          /\ \A a \in aout'.acc : a.op = "get"
          /\ VerifiedExpired(aout', akv) =>
                /\ aout'.status = 401
                /\ akv'[hashPassword(aout'.body[1].password.v)] # None]_vars

\* C24 witness: a verify answered 401 for an expired record that is still stored.
C24_Witness ==
    /\ VerifiedExpired(aout, akv)
    /\ aout.status = 401 /\ aout.message = "Content expired"
    /\ akv[hashPassword(aout.body[1].password.v)] # None

\* The request to an admin endpoint whose body was read.
AdminRequest(r) ==
    r.endpoint \in {"add", "delete", "list"} /\ r.body[1].parse = "object"

\* C25 (as stated): when the environment holds no ADMIN_PASSWORD, every request
\* to /api/admin/add, /api/admin/delete or /api/admin/list whose body is read
\* is answered 401, calls the store not at all and leaves it unchanged; so does
\* a request that leaves out adminPassword.
C25_NoSecretNoAdmin ==
    [][(env.ADMIN_PASSWORD = JUndef /\ AdminRequest(aout')) =>
          (aout'.status = 401 /\ aout'.acc = {} /\ akv' = akv)]_vars

\* The step is a view's put of a record under key k.
ViewWrites(k) ==
    /\ Answered("view")' /\ Access("put", k) \in out'.acc /\ out'.threw = {}
    /\ kv'[k] # None

\* C26 (as stated): once a view has deleted the expired record of a password,
\* and until an upload stores a record under it again, no view writes a record
\* under that password, a view in flight since before the expiry included.
C26_NoWriteAfterDelete ==
    [][\A k \in PasteKeys : ledger[k].purged => ~ViewWrites(k)]_vars

\* The counter record stored for the client, read or not by its time-to-live.
StoredCounter(ip) == JSON_parse(kv[RLKey(ip)][1].val)

\* C27: under every interleaving of the counter reads and writes of concurrent
\* requests, every counter record in the store has a count from 1 to 10.
C27_CountInRange ==
    \A ip \in Ips :
        kv[RLKey(ip)] # None =>
            (1 <= StoredCounter(ip).count
                /\ StoredCounter(ip).count <= RATE_LIMIT_MAX_REQUESTS)

\* C27 witness: the counter stands at 10 after overlapping requests, and a
\* request in flight that read 9 is about to write 10 again.
C27_Witness ==
    \E ip \in Ips :
        /\ kv[RLKey(ip)] # None
        /\ StoredCounter(ip).count = RATE_LIMIT_MAX_REQUESTS
        /\ rlh[ip].overlapped
        /\ \E s \in Slots :
              /\ reqs[s].pc = "rl_put" /\ reqs[s].ip = ip
              /\ reqs[s].rlVal[1].count = RATE_LIMIT_MAX_REQUESTS

\* The paste records of the store.
Pastes(store) == [k \in PasteKeys |-> store[k]]

\* C28: an upload answered with a status other than 200 leaves every paste
\* record as it was, and an upload answered 200 has stored, under the password
\* it returns and under no other, a record with views = 0.
C28_UploadAllOrNothing ==
    [][Answered("upload")' =>
          IF out'.resp.status # 200
          THEN Pastes(kv') = Pastes(kv)
          ELSE LET p == out'.resp.password[1] IN
               /\ p \in PasteKeys
               /\ kv'[p] # None
               /\ PasteAt(kv', p).views = 0
               /\ PasteAt(kv', p).password = p
               /\ \A k \in PasteKeys \ {p} : kv'[k] = kv[k]]_vars

\* C28 witness: the put of an upload throws; the upload is answered 500 and the
\* record an earlier upload stored under the same password is still there.
C28_Witness ==
    /\ Answered("upload") /\ out.resp.status = 500
    /\ Access("put", out.key) \in out.threw
    /\ kv[out.key] # None
    /\ PasteAt(kv, out.key).views = 0

\* C29: a request answered 429 has made no store call but the read of its
\* client's counter and leaves the whole store as it was: the counter record
\* with its count, windowStart and time-to-live, and every paste record.
C29_DeniedWritesNothing ==
    [][(out'.pc = "done" /\ out'.resp.status = 429) =>
          /\ kv' = kv
          /\ out'.acc = {Access("get", RLKey(out'.ip))}]_vars

\* C29 witness: a request denied while its client's counter stands at 10.
C29_Witness ==
    /\ out.pc = "done" /\ out.resp.status = 429
    /\ out.acc = {Access("get", RLKey(out.ip))}
    /\ CounterNow # None /\ CounterNow[1].count = RATE_LIMIT_MAX_REQUESTS

\* C30 (as stated): every paste record in the store has a content that is not
\* the empty string, is at most 10240 characters long and holds none of the
\* control characters sanitizeContent strips.
C30_StoredContentNonEmpty ==
    \A k \in PasteKeys :
        kv[k] # None =>
            /\ PasteAt(kv, k).content # <<>>
            /\ StrLen(PasteAt(kv, k).content) <= MAX_CONTENT_LENGTH
            /\ \A i \in 1..Len(PasteAt(kv, k).content) :
                  Printable(PasteAt(kv, k).content[i].c)

====
